---- MODULE Spec2Model ----
(***************************************************************************)
(* One call of pymust.dasmtx (src/src/pymust/dasmtx.py), followed from its *)
(* argument parsing to the returned sparse matrix.                         *)
(*                                                                         *)
(* The function is cut into its consecutive blocks; pc is the position of  *)
(* the call, err the source line of the statement that raised (0: none).   *)
(* What the caller passed is drawn by the block that first reads it, so a  *)
(* call that fails early never depends on what it did not read: a field of *)
(* the parameter bag stays Unread until then.  param0 is the bag as the    *)
(* caller built it, param the bag as dasmtx has changed it.                *)
(*                                                                         *)
(* Arithmetic.  Lengths are whole metres, travel distances and sample      *)
(* indices are fixed point with Res steps per unit, every operation        *)
(* rounding down; delays are whole nanoseconds.  A Lanczos weight is kept  *)
(* as its argument (no sinc is evaluated); the I/Q phase factor            *)
(* exp(i*wc*tau) is kept as the fraction of a carrier cycle it turns by.   *)
(***************************************************************************)
EXTENDS Integers, Sequences, FiniteSets, TLC

VARIABLES pc, err, varargin, method, nc, nl, sigIQ, param0, param,
          delaysTX, isRXangle, fNum, x, z, idxt, tau, I, entries, M

vars == <<pc, err, varargin, method, nc, nl, sigIQ, param0, param,
          delaysTX, isRXangle, fNum, x, z, idxt, tau, I, entries, M>>

(***************************************************************************)
(* Bounds of the model.                                                    *)
(***************************************************************************)
MaxNl == 4          \* samples per channel: nl \in 1..MaxNl
MaxNc == 3          \* elements: nc \in 1..MaxNc
MaxPts == 2         \* image points: 1..MaxPts
MaxZ == 2           \* depth of the first image point: 0..MaxZ
Res == 4            \* fixed-point steps per unit

(***************************************************************************)
(* Program constants.                                                      *)
(***************************************************************************)
DefaultC == 1540
DefaultBandwidth == 75
Methods == {"nearest", "linear", "quadratic", "lanczos3", "5points", "lanczos5"}

(***************************************************************************)
(* Values of the parameter bag (utils.Param, a dictionary).                *)
(***************************************************************************)
Unread == <<"unread">>
Absent == <<"absent">>
None == <<"none">>
Inf == <<"inf">>
Val(v) == <<"val", v>>
Fields == {"TXdelay", "c", "fs", "fnumber", "t0", "pitch", "width", "kerf",
           "bandwidth", "radius", "RXangle", "passive", "fc",
           "TransposeDASMatrix"}

isfield(p, f) == p[f] # Absent
GetIsNone(p, f) == p[f] \in {Absent, None}
ValOf(v) == v[2]

NaN == <<>>
isnan(d) == d = NaN
DelayVals == {NaN, <<0>>}
DelayVecs(n) == [0 .. n - 1 -> DelayVals]
\* the vectors drawn for the DELAYS argument: all elements transmitting, or
\* all but the first
ExplicitDelayVecs(n) == {[e \in 0 .. n - 1 |-> <<0>>],
                         [e \in 0 .. n - 1 |-> IF e = 0 THEN NaN ELSE <<0>>]}

Abs(a) == IF a < 0 THEN 0 - a ELSE a
Min(S) == CHOOSE m \in S : \A y \in S : m <= y

\* a reception angle is kept as the right triangle that has it:
\* <<opposite, adjacent, hypotenuse>>, so tan = opp/adj and cos = adj/hyp
AngleZero == <<0, 1, 1>>
AngleRX == <<3, 4, 5>>

(***************************************************************************)
(* Argument parsing, lines 224-273.                                        *)
(***************************************************************************)
IsStr(a) == a \notin {"delays", "param"}

\* Python's t[k] on a tuple of length Len(t): defined for -Len(t) <= k < Len(t)
IndexInRange(t, k) == k >= 0 - Len(t) /\ k < Len(t)
TupleAt(t, k) == IF k >= 0 THEN t[k + 1] ELSE t[Len(t) + k + 1]

\* line 224
NArgOf(va) == Len(va) + 3
\* line 243: the subscript used to read the method name
MethodSubscript(va) == NArgOf(va) - 1

\* np.allclose(a, b): |a-b| <= atol + rtol*|b| element-wise, NaN never close
\* (delays in ns: atol = 1e-8 s = 10 ns, rtol = 1e-5)
allclose(a, b) ==
    \A e \in DOMAIN a :
        /\ ~isnan(a[e]) /\ ~isnan(b[e])
        /\ Abs(a[e][1] - b[e][1]) * 100000 <= 10 * 100000 + Abs(b[e][1])

Fail(line) == pc' = "failed" /\ err' = line

ArgForms == {<<"param">>, <<"delays", "param">>}
MethodArgs == Methods \cup {"cubic"}

\* lines 224-248: count the arguments, bind the interpolation method
ParseMethod ==
    /\ pc = "start"
    /\ \E form \in ArgForms, m \in MethodArgs \cup {"-"} :
         LET va == IF m = "-" THEN form ELSE Append(form, m) IN
         /\ varargin' = va
         /\ IF IsStr(TupleAt(va, -1))
            THEN IF IndexInRange(va, MethodSubscript(va))
                 THEN /\ method' = TupleAt(va, MethodSubscript(va))
                      /\ pc' = "args" /\ err' = 0
                 ELSE /\ method' = method
                      /\ Fail(243)
            ELSE /\ method' = "linear"
                 /\ pc' = "args" /\ err' = 0
    /\ UNCHANGED <<nc, nl, sigIQ, param0, param, delaysTX, isRXangle, fNum,
                   x, z, idxt, tau, I, entries, M>>

\* the number of arguments left once the method name is taken off (244-247)
NArgLeft(va) == IF IsStr(TupleAt(va, -1)) THEN NArgOf(va) - 1 ELSE NArgOf(va)

\* lines 250-273: bind PARAM and the transmit delays, check the method name
ParseDelays ==
    /\ pc = "args"
    /\ \E n \in 1 .. MaxNc :
       \E txd \in {Absent} \cup {Val(v) : v \in (IF NArgLeft(varargin) = 4
                                                    THEN DelayVecs(n)
                                                    ELSE ExplicitDelayVecs(n))} :
       \E dl \in (IF NArgLeft(varargin) = 4 THEN {[e \in 0 .. n - 1 |-> NaN]}
                                            ELSE ExplicitDelayVecs(n)) :
         /\ nc' = n
         /\ param0' = [param0 EXCEPT !["TXdelay"] = txd]
         /\ param' = [param EXCEPT !["TXdelay"] = txd]
         /\ IF NArgLeft(varargin) = 4
            THEN IF ~isfield(param', "TXdelay")
                 THEN Fail(257) /\ delaysTX' = delaysTX
                 ELSE /\ delaysTX' = ValOf(txd)
                      /\ IF method \notin Methods THEN Fail(273)
                         ELSE pc' = "parsed" /\ err' = 0
            ELSE /\ delaysTX' = dl
                 /\ IF isfield(param', "TXdelay") /\ ~allclose(dl, ValOf(txd))
                    THEN Fail(267)
                    ELSE IF method \notin Methods THEN Fail(273)
                         ELSE pc' = "parsed" /\ err' = 0
    /\ UNCHANGED <<varargin, method, nl, sigIQ, isRXangle, fNum,
                   x, z, idxt, tau, I, entries, M>>

(***************************************************************************)
(* Validation of the parameter bag, lines 276-407.                         *)
(***************************************************************************)
CVals == {Absent}
FsVals == {Absent, Val(385)}
FnumberVals == {Absent, None, Val(-1), Val(1), Val(2)}
T0Vals == {Absent}
PitchVals == {Absent, Val(2)}
\* <<width, kerf>> as passed
WidthKerfVals == {<<Absent, Absent>>, <<Val(1), Absent>>, <<Absent, Val(1)>>,
                  <<Val(1), Val(1)>>, <<Val(1), Val(2)>>}
BandwidthVals == {Absent}
\* <<radius, RXangle>> as passed; a convex array (finite radius) is drawn only
\* together with a reception angle: the positions of its elements are not
\* part of this arithmetic
RadiusRXVals == {<<Absent, Absent>>, <<Absent, Val(AngleRX)>>,
                 <<Val(1), Val(AngleRX)>>}
PassiveVals == {Absent}
FcVals == {Absent, Val(1540)}

\* a field the caller left out gets its default (the bag is changed in place)
WithDefault(p, f, v) == IF isfield(p, f) THEN p ELSE [p EXCEPT ![f] = v]

\* lines 276-283: propagation velocity, sampling frequency
ValidateFs ==
    /\ pc = "parsed"
    /\ \E cv \in CVals, fsv \in FsVals :
         LET p1 == [param EXCEPT !["c"] = cv, !["fs"] = fsv] IN
         /\ param0' = [param0 EXCEPT !["c"] = cv, !["fs"] = fsv]
         /\ param' = WithDefault(p1, "c", Val(DefaultC))
         /\ IF GetIsNone(p1, "fs") THEN Fail(283)
            ELSE pc' = "v_fs" /\ err' = 0
    /\ UNCHANGED <<varargin, method, nc, nl, sigIQ, delaysTX, isRXangle, fNum,
                   x, z, idxt, tau, I, entries, M>>

\* lines 285-299: f-number, acquisition start time
ValidateFnumber ==
    /\ pc = "v_fs"
    /\ \E fn \in FnumberVals, t0v \in T0Vals :
         LET p1 == [param EXCEPT !["fnumber"] = fn] IN
         /\ IF ~isfield(p1, "fnumber")
            THEN /\ param0' = [param0 EXCEPT !["fnumber"] = fn, !["t0"] = t0v]
                 /\ param' = WithDefault([p1 EXCEPT !["fnumber"] = Val(0), !["t0"] = t0v],
                                         "t0", Val(0))
                 /\ pc' = "v_fnumber" /\ err' = 0
            ELSE IF p1["fnumber"] = None
            THEN /\ param0' = [param0 EXCEPT !["fnumber"] = fn, !["t0"] = t0v]
                 /\ param' = WithDefault([p1 EXCEPT !["t0"] = t0v], "t0", Val(0))
                 /\ pc' = "v_fnumber" /\ err' = 0
            ELSE IF ~(ValOf(p1["fnumber"]) >= 0)
            THEN /\ param0' = [param0 EXCEPT !["fnumber"] = fn]
                 /\ param' = p1
                 /\ Fail(294)
            ELSE /\ param0' = [param0 EXCEPT !["fnumber"] = fn, !["t0"] = t0v]
                 /\ param' = WithDefault([p1 EXCEPT !["t0"] = t0v], "t0", Val(0))
                 /\ pc' = "v_fnumber" /\ err' = 0
    /\ UNCHANGED <<varargin, method, nc, nl, sigIQ, delaysTX, isRXangle, fNum,
                   x, z, idxt, tau, I, entries, M>>

\* lines 309-316: the bag after the width/kerf block, or the line that raises
WidthKerf(p) ==
    IF isfield(p, "width") /\ isfield(p, "kerf")
    THEN IF ValOf(p["pitch"]) - ValOf(p["width"]) - ValOf(p["kerf"]) = 0
         THEN <<0, p>> ELSE <<310, p>>
    ELSE IF isfield(p, "kerf")
    THEN <<0, [p EXCEPT !["width"] = Val(ValOf(p["pitch"]) - ValOf(p["kerf"]))]>>
    ELSE IF isfield(p, "width")
    THEN <<0, [p EXCEPT !["kerf"] = Val(ValOf(p["pitch"]) - ValOf(p["width"]))]>>
    ELSE <<316, p>>

\* lines 302-318: pitch, and width or kerf when the f-number is automatic
ValidatePitch ==
    /\ pc = "v_fnumber"
    /\ \E pt \in PitchVals :
         LET p1 == [param EXCEPT !["pitch"] = pt] IN
         IF ~isfield(p1, "pitch")
         THEN /\ param0' = [param0 EXCEPT !["pitch"] = pt]
              /\ param' = p1
              /\ Fail(304)
         ELSE IF GetIsNone(p1, "fnumber")
         THEN \E wk \in WidthKerfVals :
                LET p2 == [p1 EXCEPT !["width"] = wk[1], !["kerf"] = wk[2]]
                    r == WidthKerf(p2) IN
                /\ param0' = [param0 EXCEPT !["pitch"] = pt, !["width"] = wk[1],
                                            !["kerf"] = wk[2]]
                /\ param' = r[2]
                /\ IF r[1] # 0 THEN Fail(r[1]) ELSE pc' = "v_pitch" /\ err' = 0
         ELSE /\ param0' = [param0 EXCEPT !["pitch"] = pt]
              /\ param' = p1
              /\ pc' = "v_pitch" /\ err' = 0
    /\ UNCHANGED <<varargin, method, nc, nl, sigIQ, delaysTX, isRXangle, fNum,
                   x, z, idxt, tau, I, entries, M>>

isinf(v) == v = Inf
AngleIsZero(a) == a[1] = 0

\* lines 321-350: bandwidth, radius of curvature, reception angle
ValidateRadius ==
    /\ pc = "v_pitch"
    /\ \E bw \in BandwidthVals, rr \in RadiusRXVals :
         LET p1 == WithDefault([param EXCEPT !["bandwidth"] = bw], "bandwidth",
                               Val(DefaultBandwidth))
             bwOK == GetIsNone(p1, "fnumber") =>
                        (ValOf(p1["bandwidth"]) > 0 /\ ValOf(p1["bandwidth"]) < 200)
             p2 == WithDefault([p1 EXCEPT !["radius"] = rr[1]], "radius", Inf)
             p3 == [p2 EXCEPT !["RXangle"] = rr[2]]
             noRX == ~isfield(p3, "RXangle") \/ AngleIsZero(ValOf(p3["RXangle"]))
         IN
         IF ~bwOK
         THEN /\ param0' = [param0 EXCEPT !["bandwidth"] = bw]
              /\ param' = p1
              /\ isRXangle' = isRXangle
              /\ Fail(326)
         ELSE /\ param0' = [param0 EXCEPT !["bandwidth"] = bw, !["radius"] = rr[1],
                                          !["RXangle"] = rr[2]]
              /\ IF noRX
                 THEN /\ param' = [p3 EXCEPT !["RXangle"] = Val(AngleZero)]
                      /\ isRXangle' = FALSE
                      /\ pc' = "v_radius" /\ err' = 0
                 ELSE /\ param' = p3
                      /\ IF ~isinf(p3["radius"])
                         THEN isRXangle' = isRXangle /\ Fail(343)
                         ELSE isRXangle' = TRUE /\ pc' = "v_radius" /\ err' = 0
    /\ UNCHANGED <<varargin, method, nc, nl, sigIQ, delaysTX, fNum,
                   x, z, idxt, tau, I, entries, M>>

\* lines 354-407: passive imaging, number of elements, center frequency
ValidateFc ==
    /\ pc = "v_radius"
    /\ \E pv \in PassiveVals, iq \in {"rf", "iq"} :
         LET p1 == WithDefault([param EXCEPT !["passive"] = pv], "passive", Val(FALSE)) IN
         /\ sigIQ' = iq
         /\ IF iq = "iq"
            THEN \E fcv \in FcVals :
                   /\ param0' = [param0 EXCEPT !["passive"] = pv, !["fc"] = fcv]
                   /\ param' = [p1 EXCEPT !["fc"] = fcv]
                   /\ IF fcv = Absent THEN Fail(404)
                      ELSE pc' = "validated" /\ err' = 0
            ELSE /\ param0' = [param0 EXCEPT !["passive"] = pv]
                 /\ param' = p1
                 /\ pc' = "validated" /\ err' = 0
    /\ UNCHANGED <<varargin, method, nc, nl, delaysTX, isRXangle, fNum,
                   x, z, idxt, tau, I, entries, M>>

(***************************************************************************)
(* Geometry and transmit front, lines 416-447.                             *)
(***************************************************************************)
RECURSIVE SetToSortedSeq(_)
SetToSortedSeq(S) ==
    IF S = {} THEN <<>>
    ELSE LET m == Min(S) IN <<m>> \o SetToSortedSeq(S \ {m})

\* floor(sqrt(a^2 + b^2)) for a, b >= 0
Hyp(a, b) ==
    CHOOSE r \in (IF a > b THEN a ELSE b) .. (a + b) :
        r * r <= a * a + b * b /\ (r + 1) * (r + 1) > a * a + b * b

\* param.getElementPositions() for a linear array: nc elements, pitch apart,
\* centred on 0, at depth 0
ElementX(n, pitch, e) == ((2 * e - (n - 1)) * pitch) \div 2

\* line 428
ActiveElements(d) == {e \in DOMAIN d : ~isnan(d[e])}
\* line 429: np.sum(np.abs(np.diff(idx)))
Transitions(d) ==
    Cardinality({e \in DOMAIN d : e + 1 \in DOMAIN d /\ isnan(d[e]) # isnan(d[e + 1])})
SubApertureOK(d) == Transitions(d) < 3

\* utils.interp1(y, linspace(0, n-1, 4n)) at its k-th point, y of length n > 1
\* (piecewise linear between the samples)
Interp1(y, k) ==
    LET n == Len(y)
        den == 4 * n - 1
        seg0 == (k * (n - 1)) \div den
        seg == IF seg0 > n - 2 THEN n - 2 ELSE seg0
        rem == k * (n - 1) - seg * den
    IN y[seg + 1] + ((y[seg + 2] - y[seg + 1]) * rem) \div den

\* lines 432-447: the virtual transmit front, <<x, c*delay>> of each of its
\* points in fixed point (zTi = 0 on a linear array)
Front(d, n, pitch, c) ==
    LET act == SetToSortedSeq(ActiveElements(d))
        nTX == Len(act)
        xs == [a \in 1 .. nTX |-> Res * ElementX(n, pitch, act[a])]
        ds == [a \in 1 .. nTX |-> (d[act[a]][1] * c * Res) \div 1000000000]
    IN IF nTX > 1
       THEN [k \in 1 .. 4 * nTX |-> <<Interp1(xs, k - 1), Interp1(ds, k - 1)>>]
       ELSE [a \in 1 .. nTX |-> <<xs[a], ds[a]>>]

\* lines 416-447: element positions, sub-aperture check, transmit front
TxFront ==
    /\ pc = "validated"
    /\ IF ~SubApertureOK(delaysTX) THEN Fail(429)
       ELSE pc' = "front" /\ err' = 0
    /\ UNCHANGED <<varargin, method, nc, nl, sigIQ, param0, param, delaysTX,
                   isRXangle, fNum, x, z, idxt, tau, I, entries, M>>

(***************************************************************************)
(* f-number, lines 450-463.                                                *)
(***************************************************************************)
\* the keywords scipy.optimize.fminbound takes after func, x1, x2
FminboundKeywords == {"args", "xtol", "maxfun", "full_output", "disp"}

\* lines 450-463
ResolveFnumber ==
    /\ pc = "front"
    /\ IF GetIsNone(param, "fnumber")
       THEN \* line 454 reads param.fc, line 459 calls fminbound(..., tolx=...)
            \E fcv \in (IF param["fc"] = Unread THEN FcVals ELSE {param["fc"]}) :
              /\ param0' = [param0 EXCEPT !["fc"] = fcv]
              /\ param' = [param EXCEPT !["fc"] = fcv]
              /\ fNum' = fNum
              /\ IF fcv = Absent THEN Fail(454)
                 ELSE IF "tolx" \notin FminboundKeywords THEN Fail(459)
                 ELSE Fail(460)
       ELSE /\ fNum' = ValOf(param["fnumber"])
            /\ pc' = "fnum" /\ err' = 0
            /\ UNCHANGED <<param0, param>>
    /\ UNCHANGED <<varargin, method, nc, nl, sigIQ, delaysTX, isRXangle,
                   x, z, idxt, tau, I, entries, M>>

(***************************************************************************)
(* Travel times, sample indices, in-range and aperture, lines 466-536.     *)
(***************************************************************************)
Pairs(np, n) == (0 .. np - 1) \X (0 .. n - 1)

\* line 479 (0 in passive mode, line 481)
dTX(front, px, pz) ==
    Min({front[k][2] + Hyp(Abs(Res * px - front[k][1]), Abs(Res * pz)) :
            k \in DOMAIN front})

\* lines 488-490
dRX(px, pz, ex) == Hyp(Res * Abs(px - ex), Res * Abs(pz))

\* lines 502-512: the last sample index a pair may have
LastIndex(m, l) ==
    CASE m = "nearest" -> l - 1
      [] m = "linear" -> l - 2
      [] m \in {"quadratic", "lanczos3", "5points"} -> l - 3
      [] m = "lanczos5" -> l - 4

InRange(m, l, t) == t >= 0 /\ t <= LastIndex(m, l) * Res

\* the aperture with the depth multiplied, instead of divided, by 2*fNum
ApertureLinearTimes(dxT, pz, f) == Abs(dxT) <= pz * 2 * f

\* line 526: abs(dxT) <= z/2/fNum, for fNum > 0
ApertureLinear(dxT, pz, f) == Abs(dxT) * 2 * f <= pz

\* the image points: a scan line at abscissa x0 from depth z0 downwards
XVals == {0, 1}

\* the line of lines 466-536 that raises whatever the image points are
\* (0: none): line 479 takes the minimum over an empty transmit front, line
\* 534 reads z.tanRX, which no array has
FieldRaises ==
    IF ~ValOf(param["passive"]) /\ ActiveElements(delaysTX) = {} THEN 479
    ELSE IF fNum > 0 /\ isRXangle THEN 534
    ELSE 0

\* lines 466-536, when a statement raises
FieldFails ==
    /\ pc = "fnum"
    /\ FieldRaises # 0
    /\ Fail(FieldRaises)
    /\ UNCHANGED <<varargin, method, nc, nl, sigIQ, param0, param, delaysTX,
                   isRXangle, fNum, x, z, idxt, tau, I, entries, M>>

\* lines 466-536
Field ==
    /\ pc = "fnum"
    /\ FieldRaises = 0
    /\ LET c == ValOf(param["c"])
           fs == ValOf(param["fs"])
           t0 == ValOf(param["t0"])
           pitch == ValOf(param["pitch"])
           passive == ValOf(param["passive"])
           front == Front(delaysTX, nc, pitch, c)
           ex == [e \in 0 .. nc - 1 |-> ElementX(nc, pitch, e)]
       IN
       \E l \in 1 .. MaxNl, np \in 1 .. MaxPts, x0 \in XVals, z0 \in 0 .. MaxZ :
         /\ nl' = l
         /\ x' = [p \in 0 .. np - 1 |-> x0]
         /\ z' = [p \in 0 .. np - 1 |-> z0 + p]
         \* line 493, as c*tau
         /\ tau' = [q \in Pairs(np, nc) |->
                      (IF passive THEN 0 ELSE dTX(front, x'[q[1]], z'[q[1]]))
                      + dRX(x'[q[1]], z'[q[1]], ex[q[2]])]
         \* line 496
         /\ idxt' = [q \in Pairs(np, nc) |-> (tau'[q] * fs) \div c - t0 * fs * Res]
         \* lines 500-536
         /\ I' = {q \in Pairs(np, nc) :
                    /\ InRange(method, l, idxt'[q])
                    /\ fNum > 0 => ApertureLinear(x'[q[1]] - ex[q[2]], z'[q[1]], fNum)}
         /\ pc' = "field" /\ err' = 0
    /\ UNCHANGED <<varargin, method, nc, sigIQ, param0, param, delaysTX,
                   isRXangle, fNum, entries, M>>

(***************************************************************************)
(* Sparse assembly, lines 540-596.                                         *)
(***************************************************************************)
\* np.round (half to even) of the residual d/Res, which lies in [0, 1)
RoundResidual(d) == IF 2 * d > Res THEN 1 ELSE 0

\* a windowed-sinc weight sinc(t)*sinc(t/2), kept as its argument t (in 1/Res)
Lanczos(t) == <<"lanczos", t>>

\* the linear taps with their two weights exchanged
TapsSwapped(m, idxf, d) ==
    CASE m = "linear" -> << <<idxf, <<d, Res>>>>, <<idxf + 1, <<Res - d, Res>>>> >>
      [] OTHER -> << <<RoundResidual(d), <<1, 1>>>> >>

\* lines 549-592: <<column, weight>> of every tap, from idxf = floor(idx) and
\* the residual d = idx - idxf (line 545); a polynomial weight is <<num, den>>
Taps(m, idxf, d) ==
    CASE m = "nearest" -> << <<RoundResidual(d), <<1, 1>>>> >>
      [] m = "linear" -> << <<idxf, <<Res - d, Res>>>>, <<idxf + 1, <<d, Res>>>> >>
      [] m = "quadratic" ->
           << <<idxf, <<(d - Res) * (d - 2 * Res), 2 * Res * Res>>>>,
              <<idxf + 1, <<0 - d * (d - 2 * Res), Res * Res>>>>,
              <<idxf + 2, <<d * (d - Res), 2 * Res * Res>>>> >>
      [] m = "lanczos3" ->
           [k \in 1 .. 4 |-> <<idxf + k - 2, Lanczos(d - (k - 2) * Res)>>]
      [] m = "lanczos5" ->
           [k \in 1 .. 6 |-> <<idxf + k - 3, Lanczos(d - (k - 3) * Res)>>]

\* line 596: the turn exp(1j*wc*tau) of an I/Q weight, as the part of a carrier
\* cycle left over (0: the factor is 1); real signals are not turned
Rot(iq, fc, c, t) == IF iq = "iq" THEN (fc * t) % (c * Res) ELSE 0

\* lines 540-596
Assemble ==
    /\ pc = "field"
    /\ IF method = "5points"
       THEN \* line 578: s *= ... with s not yet bound
            Fail(578) /\ entries' = entries
       ELSE /\ entries' =
                 UNION { LET idx == idxt[q] + q[2] * nl * Res
                             tp == Taps(method, idx \div Res, idx % Res)
                         IN { [i |-> q[1], e |-> q[2], k |-> k,
                               j |-> tp[k][1], s |-> tp[k][2],
                               rot |-> Rot(sigIQ, IF sigIQ = "iq" THEN ValOf(param["fc"]) ELSE 0,
                                           ValOf(param["c"]), tau[q])] :
                              k \in DOMAIN tp }
                         : q \in I }
            /\ pc' = "assembled" /\ err' = 0
    /\ UNCHANGED <<varargin, method, nc, nl, sigIQ, param0, param, delaysTX,
                   isRXangle, fNum, x, z, idxt, tau, I, M>>

(***************************************************************************)
(* Orientation and return, lines 598-614.                                  *)
(***************************************************************************)
NoMatrix == [shape |-> <<0, 0>>, coo |-> {}]

\* the orientation test turned round
KeepRowsWhenFewer(np, nlnc) == np < nlnc

\* line 603: the matrix is left as (points, nl*nc)
KeepRows(np, nlnc) == np > nlnc

\* a constructor that refuses to build a matrix without entries
CooRefusesEmpty(ent, cols) == ent # {} /\ \A en \in ent : en.j >= 0 /\ en.j < cols

\* scipy.sparse.coo_matrix((s, (row, col)), shape): the indices must lie in shape
CooOK(ent, cols) == \A en \in ent : en.j >= 0 /\ en.j < cols
CooRows(ent, np, cols) ==
    [shape |-> <<np, cols>>,
     coo |-> {[row |-> en.i, col |-> en.j, s |-> en.s, rot |-> en.rot,
               e |-> en.e, k |-> en.k] : en \in ent}]
\* the transposed branch building the untransposed matrix
CooColsKept(ent, np, cols) ==
    [shape |-> <<np, cols>>,
     coo |-> {[row |-> en.i, col |-> en.j, s |-> en.s, rot |-> en.rot,
               e |-> en.e, k |-> en.k] : en \in ent}]
CooCols(ent, np, cols) ==
    [shape |-> <<cols, np>>,
     coo |-> {[row |-> en.j, col |-> en.i, s |-> en.s, rot |-> en.rot,
               e |-> en.e, k |-> en.k] : en \in ent}]

TransposeVals == {Absent, Val(FALSE)}

\* lines 598-614
Return ==
    /\ pc = "assembled"
    /\ \E tv \in TransposeVals :
         LET np == Cardinality(DOMAIN x)
             cols == nl * nc
             p1 == [param EXCEPT !["TransposeDASMatrix"] = tv]
         IN
         /\ param0' = [param0 EXCEPT !["TransposeDASMatrix"] = tv]
         /\ IF isfield(p1, "TransposeDASMatrix")
            THEN IF KeepRows(np, cols)
                 THEN /\ param' = [p1 EXCEPT !["TransposeDASMatrix"] = Val(FALSE)]
                      /\ IF CooOK(entries, cols)
                         THEN M' = CooRows(entries, np, cols) /\ pc' = "returned" /\ err' = 0
                         ELSE M' = M /\ Fail(605)
                 ELSE /\ param' = [p1 EXCEPT !["TransposeDASMatrix"] = Val(TRUE)]
                      /\ IF CooOK(entries, cols)
                         THEN M' = CooCols(entries, np, cols) /\ pc' = "returned" /\ err' = 0
                         ELSE M' = M /\ Fail(609)
            ELSE /\ param' = p1
                 /\ IF CooOK(entries, cols)
                    THEN M' = CooRows(entries, np, cols) /\ pc' = "returned" /\ err' = 0
                    ELSE M' = M /\ Fail(612)
    /\ UNCHANGED <<varargin, method, nc, nl, sigIQ, delaysTX, isRXangle, fNum,
                   x, z, idxt, tau, I, entries>>

(***************************************************************************)
(* The call of dasmtx.                                                     *)
(***************************************************************************)
Init ==
    /\ pc = "start" /\ err = 0
    /\ varargin = <<>> /\ method = ""
    /\ nc = 0 /\ nl = 0 /\ sigIQ = "unread"
    /\ param0 = [f \in Fields |-> Unread]
    /\ param = [f \in Fields |-> Unread]
    /\ delaysTX = <<>> /\ isRXangle = FALSE /\ fNum = 0
    /\ x = <<>> /\ z = <<>> /\ idxt = <<>> /\ tau = <<>>
    /\ I = {} /\ entries = {} /\ M = NoMatrix

Next ==
    \/ ParseMethod
    \/ ParseDelays
    \/ ValidateFs
    \/ ValidateFnumber
    \/ ValidatePitch
    \/ ValidateRadius
    \/ ValidateFc
    \/ TxFront
    \/ ResolveFnumber
    \/ Field
    \/ FieldFails
    \/ Assemble
    \/ Return

Spec == Init /\ [][Next]_vars

(***************************************************************************)
(* The stages from line 466 on, for each interpolation method the stages   *)
(* are written for: the state at line 466 of a call on a linear array      *)
(* without reception angle, all elements transmitting at delay 0, with     *)
(* `method` bound to each of the six names.  (Through ParseMethod a call   *)
(* reaches line 466 with method = "linear" only.)                          *)
(***************************************************************************)
StencilBag(fn, pv, iq) ==
    [f \in Fields |->
        CASE f = "TXdelay" -> Absent
          [] f = "c" -> Val(DefaultC)
          [] f = "fs" -> Val(385)
          [] f = "fnumber" -> Val(fn)
          [] f = "t0" -> Val(0)
          [] f = "pitch" -> Val(2)
          [] f = "bandwidth" -> Val(DefaultBandwidth)
          [] f = "radius" -> Inf
          [] f = "RXangle" -> Val(AngleZero)
          [] f = "passive" -> Val(pv)
          [] f = "fc" -> IF iq = "iq" THEN Val(1540) ELSE Unread
          [] OTHER -> Unread]

InitStencil ==
    /\ pc = "fnum" /\ err = 0
    /\ method \in Methods
    /\ varargin = <<"delays", "param", method>>
    /\ nc \in 1 .. MaxNc
    /\ nl = 0
    /\ sigIQ \in {"rf", "iq"}
    /\ fNum \in {0, 1}
    /\ \E pv \in BOOLEAN :
         /\ param = StencilBag(fNum, pv, sigIQ)
         /\ param0 = param
    /\ delaysTX = [e \in 0 .. nc - 1 |-> <<0>>]
    /\ isRXangle = FALSE
    /\ x = <<>> /\ z = <<>> /\ idxt = <<>> /\ tau = <<>>
    /\ I = {} /\ entries = {} /\ M = NoMatrix

NextStencil ==
    \/ Field
    \/ Assemble
    \/ Return

SpecStencil == InitStencil /\ [][NextStencil]_vars

(***************************************************************************)
(* Properties.                                                             *)
(***************************************************************************)
NumPoints == Cardinality(DOMAIN x)
FieldDone == pc \in {"field", "assembled", "returned"}
AssembleDone == pc \in {"assembled", "returned"}
CarriesTranspose == param0["TransposeDASMatrix"] \notin {Unread, Absent}
EntriesOf(q) == {en \in entries : en.i = q[1] /\ en.e = q[2]}

\* C1, as claimed: when the bag carries TransposeDASMatrix, the operator is
\* returned as (nl*nc, points) if there are more than nl*nc points, and as
\* (points, nl*nc) if there are fewer.
C1_TransposedWhenMorePoints ==
    (pc = "returned" /\ CarriesTranspose) =>
        /\ NumPoints > nl * nc => M.shape = <<nl * nc, NumPoints>>
        /\ NumPoints < nl * nc => M.shape = <<NumPoints, nl * nc>>

\* C1, amended: when the bag carries TransposeDASMatrix, the operator is
\* returned as (points, nl*nc) if there are more than nl*nc points, and as
\* (nl*nc, points) if there are fewer.
C1_KeptWhenMorePoints ==
    (pc = "returned" /\ CarriesTranspose) =>
        /\ NumPoints > nl * nc => M.shape = <<NumPoints, nl * nc>>
        /\ NumPoints < nl * nc => M.shape = <<nl * nc, NumPoints>>

C1_Witness ==
    /\ pc = "returned" /\ CarriesTranspose
    /\ NumPoints > nl * nc
    /\ M.shape = <<NumPoints, nl * nc>>

\* the contiguous runs of transmitting elements of a delay vector
Runs(d) ==
    Cardinality({e \in DOMAIN d : ~isnan(d[e]) /\ (e - 1 \in DOMAIN d => isnan(d[e - 1]))})

\* C2: a delay vector whose transmitting elements form two or more separate
\* runs makes the call fail: it never gets past the sub-aperture check and no
\* matrix is returned.
C2_DisjointSubAperturesRejected ==
    Runs(delaysTX) >= 2 =>
        pc \notin {"front", "fnum", "field", "assembled", "returned"}

\* C3: a recognized method name passed last is the method used and never makes
\* the argument parsing fail, in both call forms; without a name the method is
\* linear.
C3_MethodNameBound ==
    /\ (varargin # <<>> /\ TupleAt(varargin, -1) \in Methods) =>
          /\ err # 243
          /\ pc # "failed" => method = TupleAt(varargin, -1)
    /\ (varargin # <<>> /\ ~IsStr(TupleAt(varargin, -1)) /\ pc # "failed") =>
          method = "linear"

\* the number of taps of each scheme
StencilWidth(m) ==
    CASE m = "nearest" -> 1
      [] m = "linear" -> 2
      [] m = "quadratic" -> 3
      [] m = "lanczos3" -> 4
      [] m = "5points" -> 5
      [] m = "lanczos5" -> 6

RoundIndex(t) ==
    LET f == t \div Res
        d == t % Res
    IN IF 2 * d > Res THEN f + 1
       ELSE IF 2 * d < Res THEN f
       ELSE IF f % 2 = 0 THEN f ELSE f + 1

C6_LinearWeights ==
    (method = "linear" /\ AssembleDone) =>
        \A q \in I :
            LET fl == idxt[q] \div Res
                d == idxt[q] - fl * Res
                ph == IF sigIQ = "iq"
                      THEN (ValOf(param["fc"]) * tau[q]) % (ValOf(param["c"]) * Res)
                      ELSE 0
                taps == {<<en.j, en.s, en.rot>> : en \in EntriesOf(q)}
            IN /\ Cardinality(EntriesOf(q)) = 2
               /\ taps = { <<q[2] * nl + fl, <<Res - d, Res>>, ph>>,
                           <<q[2] * nl + fl + 1, <<d, Res>>, ph>> }
               /\ \A a, b \in EntriesOf(q) : a.k # b.k =>
                     /\ a.s[1] + b.s[1] = a.s[2]
                     /\ a.s[2] = b.s[2]
               /\ fl * Res <= idxt[q] /\ idxt[q] < (fl + 1) * Res

C6_Witness ==
    /\ method = "linear" /\ pc = "returned"
    /\ \E q \in I : q[2] >= 1 /\ idxt[q] % Res # 0 /\ Cardinality(EntriesOf(q)) = 2

C8_ApertureMonotone ==
    (FieldDone /\ ~isRXangle /\ isinf(param["radius"])) =>
        LET ex(e) == ElementX(nc, ValOf(param["pitch"]), e) IN
        /\ fNum = 0 =>
              I = {q \in Pairs(NumPoints, nc) : InRange(method, nl, idxt[q])}
        /\ fNum > 0 =>
              \A q \in Pairs(NumPoints, nc) :
                 /\ q \in I <=> /\ InRange(method, nl, idxt[q])
                                /\ 2 * fNum * Abs(x[q[1]] - ex(q[2])) <= z[q[1]]
                 /\ \A f1 \in 1 .. fNum :
                       ApertureLinear(x[q[1]] - ex(q[2]), z[q[1]], fNum)
                          => ApertureLinear(x[q[1]] - ex(q[2]), z[q[1]], f1)

C8_Witness ==
    /\ FieldDone /\ ~isRXangle /\ fNum = 2
    /\ \E q \in Pairs(NumPoints, nc) :
          /\ InRange(method, nl, idxt[q])
          /\ q \notin I
          /\ ApertureLinear(x[q[1]] - ElementX(nc, ValOf(param["pitch"]), q[2]), z[q[1]], 1)

\* C9: with a reception angle on a linear array and fnumber > 0 the call
\* completes, and a pair takes part iff it is in range and
\* |(x - x_e) - z*tan(RXangle)| <= z/(cos(RXangle)*2*fnumber); with a
\* reception angle on a convex array the call fails.
C9_ReceptionAngleAperture ==
    /\ (isRXangle /\ fNum > 0 /\ (FieldDone \/ (pc = "failed" /\ err >= 466))) =>
          /\ err # 534
          /\ LET a == ValOf(param["RXangle"])
                 ex(e) == ElementX(nc, ValOf(param["pitch"]), e)
             IN I = {q \in Pairs(NumPoints, nc) :
                       /\ InRange(method, nl, idxt[q])
                       /\ Abs((x[q[1]] - ex(q[2])) * a[2] - z[q[1]] * a[1]) * 2 * fNum
                             <= z[q[1]] * a[3]}
    /\ (/\ param0["radius"] \notin {Unread, Absent, Inf}
        /\ param0["RXangle"] \notin {Unread, Absent, Val(AngleZero)}) => pc = "failed"

\* C10: with fnumber given as empty and a width or a kerf given, the call
\* does not fail in the f-number block: a positive f-number is stored in the
\* bag, and a returned operator has one row (or column) per entry of x.
C10_AutoFnumber ==
    (/\ param0["fnumber"] = None
     /\ isfield(param0, "width") \/ isfield(param0, "kerf")
     /\ pc \in {"fnum", "field", "assembled", "returned"}
           \/ (pc = "failed" /\ err >= 450)) =>
        /\ pc # "failed"
        /\ param["fnumber"] # None /\ ValOf(param["fnumber"]) > 0

\* C11: when no (point, element) pair passes the in-range and aperture
\* predicates, the assembly and the return raise nothing, and the operator
\* returned has no stored entry and the shape (points, nl*nc) or its
\* transpose.
C11_EmptyResult ==
    (I = {} /\ (FieldDone \/ (pc = "failed" /\ err >= 540))) =>
        /\ pc # "failed"
        /\ AssembleDone => entries = {}
        /\ pc = "returned" =>
              /\ M.coo = {}
              /\ M.shape \in {<<NumPoints, nl * nc>>, <<nl * nc, NumPoints>>}

C11_Witness ==
    /\ pc = "returned" /\ I = {}
    /\ NumPoints >= 1 /\ nl >= 2
    /\ M.coo = {} /\ M.shape = <<nl * nc, NumPoints>>

\* the flag the bag holds on return
Flag == param["TransposeDASMatrix"]

\* C12, as claimed: on return, if the bag carried TransposeDASMatrix the
\* field is True iff the shape is (nl*nc, points) and False iff it is
\* (points, nl*nc); if it did not, the shape is (points, nl*nc) and the
\* field is not created.
C12_FlagIffShape ==
    pc = "returned" =>
        IF CarriesTranspose
        THEN /\ Flag = Val(TRUE) <=> M.shape = <<nl * nc, NumPoints>>
             /\ Flag = Val(FALSE) <=> M.shape = <<NumPoints, nl * nc>>
        ELSE M.shape = <<NumPoints, nl * nc>> /\ Flag = Absent

\* C12, amended: on return, if the bag carried TransposeDASMatrix the field
\* is True or False; True only with the transposed operator (rows are
\* samples), of shape (nl*nc, points), False only with the untransposed one
\* (rows are points), of shape (points, nl*nc), and where the two shapes
\* differ the converses hold too; if the bag did not carry the field, the
\* untransposed operator is returned and the field is not created.
C12_FlagAgreesWithMatrix ==
    pc = "returned" =>
        LET rowsArePoints == \A en \in entries : \E m \in M.coo :
                                m.row = en.i /\ m.col = en.j /\ m.e = en.e /\ m.k = en.k
            rowsAreSamples == \A en \in entries : \E m \in M.coo :
                                m.row = en.j /\ m.col = en.i /\ m.e = en.e /\ m.k = en.k
        IN
        IF CarriesTranspose
        THEN /\ Flag \in {Val(TRUE), Val(FALSE)}
             /\ Flag = Val(TRUE) =>
                   M.shape = <<nl * nc, NumPoints>> /\ rowsAreSamples
             /\ Flag = Val(FALSE) =>
                   M.shape = <<NumPoints, nl * nc>> /\ rowsArePoints
             /\ NumPoints # nl * nc =>
                   /\ M.shape = <<nl * nc, NumPoints>> => Flag = Val(TRUE)
                   /\ M.shape = <<NumPoints, nl * nc>> => Flag = Val(FALSE)
        ELSE /\ M.shape = <<NumPoints, nl * nc>> /\ rowsArePoints
             /\ Flag = Absent

C12_Witness ==
    /\ pc = "returned" /\ CarriesTranspose
    /\ Flag = Val(TRUE) /\ entries # {}
    /\ NumPoints < nl * nc
    /\ M.shape = <<nl * nc, NumPoints>>

\* C13: when the call fails in the validation of the bag (lines 276-463), the
\* caller's bag holds the fields and values it held before the call.
C13_BagUnchangedOnFailure ==
    (pc = "failed" /\ err >= 276 /\ err <= 463) => param = param0

\* C14: with both DELAYS and PARAM.TXdelay given, the call is rejected for
\* conflicting delays iff the two vectors differ; identical vectors are
\* accepted, also with NaN at the same places.
C14_ConflictIffDifferent ==
    (/\ pc \notin {"start", "args"}
     /\ varargin # <<>> /\ NArgLeft(varargin) = 5
     /\ param0["TXdelay"] \notin {Unread, Absent}) =>
        ((pc = "failed" /\ err = 267) <=> delaysTX # ValOf(param0["TXdelay"]))

====
